---------------------------- MODULE Spec2Model ----------------------------
(***************************************************************************)
(* A model of src/project_cnc.py: the CNCMachine class that turns the      *)
(* contours of an image into pen movements of a turtle "cutting tool".     *)
(*                                                                         *)
(* Python's float is IEEE-754 binary64.  The coordinates the program       *)
(* computes are modelled as binary64 values, with the operations the code  *)
(* performs on them (int/int true division, subtraction, multiplication)   *)
(* rounded to nearest, ties to even, as CPython rounds them.               *)
(***************************************************************************)
EXTENDS Integers, Sequences, FiniteSets

(***************************************************************************)
(* binary64.  A value is [s, e, m]: sign s in {-1, 0, 1}, exponent e of    *)
(* the leading bit, and the 52 fraction bits m as four 13-bit limbs, most  *)
(* significant first: the value is s * (1 + m / 2^52) * 2^e.  The          *)
(* magnitudes the program meets are far from the subnormal and overflow    *)
(* ranges, which are left out.                                             *)
(***************************************************************************)
Limb == 2^13

FZero == [s |-> 0, e |-> 0, m |-> <<0, 0, 0, 0>>]

RECURSIVE Log2(_)
\* floor(log2(n)) for n >= 1
Log2(n) == IF n < 2 THEN 0 ELSE 1 + Log2(n \div 2)

Abs(n) == IF n < 0 THEN -n ELSE n

Sign(n) == IF n < 0 THEN -1 ELSE IF n = 0 THEN 0 ELSE 1

Max(a, b) == IF a >= b THEN a ELSE b

\* The float with magnitude (1 + frac / 2^52) * 2^e, frac given as the limbs
\* L = <<l1, l2, l3, l4>>, plus one unit in the last place when up is TRUE
\* (the carry may run up to the leading bit, which raises the exponent).
Rounded(s, e, L, up) ==
    LET n4 == L[4] + (IF up THEN 1 ELSE 0)
        n3 == L[3] + n4 \div Limb
        n2 == L[2] + n3 \div Limb
        n1 == L[1] + n2 \div Limb
    IN  IF n1 \div Limb = 1
          THEN [s |-> s, e |-> e + 1, m |-> <<0, 0, 0, 0>>]
          ELSE [s |-> s, e |-> e, m |-> <<n1 % Limb, n2 % Limb, n3 % Limb, n4 % Limb>>]

\* The float of a / 2 for an integer a with |a| < 2^14: exact.
FromHalves(a) ==
    IF a = 0 THEN FZero
    ELSE LET q == Log2(Abs(a))
         IN  [s |-> Sign(a), e |-> q - 1,
              m |-> <<(Abs(a) - 2^q) * 2^(13 - q), 0, 0, 0>>]

\* float(n) of a Python int n with |n| < 2^13: exact.
FromInt(n) == FromHalves(2 * n)

\* Twice the value of f, for f a multiple of 1/2 with |f| < 2^13.
ToHalves(f) ==
    IF f.s = 0 THEN 0
    ELSE f.s * (2^(f.e + 1) + f.m[1] \div 2^(12 - f.e))

\* a - b in binary64 for a and b multiples of 1/2 with |a|, |b| < 2^12:
\* the difference is again such a value, so the operation is exact.
FSub(a, b) == FromHalves(ToHalves(a) - ToHalves(b))

FNeg(f) == [f EXCEPT !.s = -f.s]

FAbs(f) == [f EXCEPT !.s = Abs(f.s)]

RECURSIVE ShiftUp(_, _, _)
\* The least k >= 0 with c * 2^k >= d, for 0 < c
ShiftUp(c, d, k) == IF c >= d THEN k ELSE ShiftUp(2 * c, d, k + 1)

\* n / d, the true division of two Python ints (d # 0, |n|, |d| < 2^17),
\* correctly rounded: long division of the 52 fraction bits, 13 at a time,
\* then the remainder decides the rounding (half way goes to even).
FDiv(n, d) ==
    IF n = 0 THEN FZero
    ELSE LET c  == Abs(n)
             b  == Abs(d)
             p  == IF c >= b THEN Log2(c \div b) ELSE -ShiftUp(c, b, 0)
             c1 == IF p >= 0 THEN c ELSE c * 2^(-p)
             b1 == IF p >= 0 THEN b * 2^p ELSE b
             r0 == c1 - b1
             d1 == (r0 * Limb) \div b1
             r1 == (r0 * Limb) % b1
             d2 == (r1 * Limb) \div b1
             r2 == (r1 * Limb) % b1
             d3 == (r2 * Limb) \div b1
             r3 == (r2 * Limb) % b1
             d4 == (r3 * Limb) \div b1
             r4 == (r3 * Limb) % b1
             up == (2 * r4 > b1) \/ (2 * r4 = b1 /\ d4 % 2 = 1)
         IN  Rounded(Sign(n) * Sign(d), p, <<d1, d2, d3, d4>>, up)

\* a * b in binary64: the exact 106-bit product of the two 53-bit
\* significands, in 13-bit limbs, rounded to 53 bits (to nearest, ties to even).
FMul(a, b) ==
    IF a.s = 0 \/ b.s = 0 THEN FZero
    ELSE LET A == <<1>> \o a.m
             B == <<1>> \o b.m
             \* column k holds the products of weight 2^(13 * (8 - k))
             col(k) == LET I == {i \in 1..5 : k + 2 - i \in 1..5}
                           RECURSIVE sum(_)
                           sum(S) == IF S = {} THEN 0
                                     ELSE LET i == CHOOSE x \in S : TRUE
                                          IN  A[i] * B[k + 2 - i] + sum(S \ {i})
                       IN  sum(I)
             v8 == col(8)
             v7 == col(7) + v8 \div Limb
             v6 == col(6) + v7 \div Limb
             v5 == col(5) + v6 \div Limb
             v4 == col(4) + v5 \div Limb
             v3 == col(3) + v4 \div Limb
             v2 == col(2) + v3 \div Limb
             v1 == col(1) + v2 \div Limb
             v0 == col(0) + v1 \div Limb
             P  == <<v0, v1 % Limb, v2 % Limb, v3 % Limb, v4 % Limb,
                     v5 % Limb, v6 % Limb, v7 % Limb, v8 % Limb>>
             low == P[6] # 0 \/ P[7] # 0 \/ P[8] # 0 \/ P[9] # 0
             s  == a.s * b.s
         IN  IF v0 >= 2
               THEN \* the product is in [2, 4): one more bit is dropped
                    LET L == [i \in 1..4 |-> (P[i] % 2) * (Limb \div 2) + P[i + 1] \div 2]
                        guard == P[5] % 2 = 1
                        up == guard /\ (low \/ L[4] % 2 = 1)
                    IN  Rounded(s, a.e + b.e + 1, L, up)
               ELSE LET L == <<P[2], P[3], P[4], P[5]>>
                        guard == P[6] >= Limb \div 2
                        sticky == P[6] % (Limb \div 2) # 0 \/ P[7] # 0 \/ P[8] # 0 \/ P[9] # 0
                        up == guard /\ (sticky \/ L[4] % 2 = 1)
                    IN  Rounded(s, a.e + b.e, L, up)

\* The magnitudes of two floats compared: -1, 0 or 1
CmpMag(a, b) ==
    LET ka == <<a.e>> \o a.m
        kb == <<b.e>> \o b.m
        D  == {i \in 1..5 : ka[i] # kb[i]}
    IN  IF a.s = 0 /\ b.s = 0 THEN 0
        ELSE IF a.s = 0 THEN -1
        ELSE IF b.s = 0 THEN 1
        ELSE IF D = {} THEN 0
        ELSE LET i == CHOOSE x \in D : \A y \in D : x <= y
             IN  IF ka[i] < kb[i] THEN -1 ELSE 1

\* a <= b
FLe(a, b) ==
    IF a.s # b.s THEN a.s < b.s
    ELSE IF a.s >= 0 THEN CmpMag(a, b) <= 0
    ELSE CmpMag(a, b) >= 0

\* The least float above a positive float f
FSucc(f) == Rounded(f.s, f.e, f.m, TRUE)


(***************************************************************************)
(* Inputs.  cv2.findContours returns arrays of integer pixel points, none  *)
(* of them empty; a contour object is [id, pts], id being its place in the *)
(* list cv2 returned (the identity of the Python object).                  *)
(***************************************************************************)
MaxContours == 3

DefaultCanvasSize == 600

DefaultMinPoints == 10

\* The values of canvas_size tried (generate_from_image's default first)
CanvasSizes == {DefaultCanvasSize, 400}

\* The values of min_points a direct call of draw_toolpath is given
MinPointsChoices == {0, 2, DefaultMinPoints, DefaultMinPoints + 1, 1000}

\* img.shape of the images loaded: (height, width)
ImageShapes == {<<4, 4>>, <<4, 6>>, <<5, 4>>}

\* Pixel-space contours inside every image of ImageShapes: a single pixel, a
\* segment from the corner (0,0) to the centre of a 4x4 image, a ten-point
\* outline of area 3 and the twelve-point border of the 4x4 block, of area 9.
Dot == <<<<1, 1>>>>

Segment == <<<<0, 0>>, <<2, 2>>>>

Ring == <<<<0, 0>>, <<1, 0>>, <<2, 0>>, <<3, 0>>, <<3, 1>>, <<3, 2>>,
          <<3, 3>>, <<2, 3>>, <<1, 3>>, <<0, 3>>, <<0, 2>>, <<0, 1>>>>

Outline == <<<<0, 0>>, <<1, 0>>, <<2, 0>>, <<3, 0>>, <<3, 1>>,
             <<2, 1>>, <<1, 1>>, <<0, 2>>, <<0, 1>>, <<1, 1>>>>

ContourPool == {Dot, Segment, Outline, Ring}

\* A list of point sequences as the list of contour objects cv2 returns
AsContours(ps) == [k \in 1..Len(ps) |-> [id |-> k, pts |-> ps[k]]]

\* Every list of at most MaxContours contours of the pool
ShortLists ==
    UNION {[1..n -> ContourPool] : n \in 0..MaxContours}

\* Lists long enough for the progress message of draw_toolpath (every fifth
\* contour drawn): outlines, with one contour of another kind among them.
LongLists ==
    {[k \in 1..n |-> IF k = at THEN c ELSE Outline] :
        n \in {5, 6}, at \in {0, 2, 5}, c \in {Dot, Ring}}

ContourLists == {AsContours(ps) : ps \in ShortLists \cup LongLists}

\* Shapes and points of the direct calls of scale_coordinates: every integer
\* point from corner to corner of the image, for small images and for images
\* 73 and 11 pixels long.
ProbeShapes == {<<1, 1>>, <<2, 4>>, <<3, 2>>, <<11, 11>>, <<73, 2>>, <<2, 73>>}

ProbePoints(shape) == (0..shape[2]) \X (0..shape[1])

(***************************************************************************)
(* State                                                                   *)
(***************************************************************************)
VARIABLES
    pc,               \* the statement the program is at
    entry,            \* the method of CNCMachine the caller called
    outcome,          \* of that call: "running", "returned" or "raised"
    exc,              \* the exception in flight or caught, "" when none
    ran,              \* the methods entered so far, in order
    status,           \* the text the status turtle shows
    printed,          \* the lines written to stdout
    tool,             \* the cutting tool: its position, pen and colour
    tool_log,         \* every penup, pendown and goto of the tool, in order
    img_shape,        \* edge_detection's img.shape
    canvas_size,
    discovered,       \* the list cv2.findContours returned
    contours,         \* extract_contours' result (scale_coordinates' argument)
    scaled_contours,  \* scale_coordinates' result (draw_toolpath's argument)
    min_points,
    total_contours,   \* draw_toolpath's locals
    drawn,
    i,
    j

vars == <<pc, entry, outcome, exc, ran, status, printed, tool, tool_log,
          img_shape, canvas_size, discovered, contours, scaled_contours,
          min_points, total_contours, drawn, i, j>>

pipeline == <<img_shape, canvas_size, discovered, contours, scaled_contours>>

locals == <<min_points, total_contours, drawn, i, j>>

Home == <<FZero, FZero>>

\* update_status(msg): the message, with the values formatted into it
Msg(text, str, a, b) == [text |-> text, str |-> str, a |-> a, b |-> b]

NoException == [type |-> "", msg |-> ""]

Init ==
    /\ pc = "idle"
    /\ entry = ""
    /\ outcome = "running"
    /\ exc = NoException
    /\ ran = <<>>
    /\ status = Msg("", "", 0, 0)
    /\ printed = <<>>
    /\ tool = [pos |-> Home, down |-> TRUE, color |-> "red"]
    /\ tool_log = <<>>
    /\ img_shape = <<0, 0>>
    /\ canvas_size = 0
    /\ discovered = <<>>
    /\ contours = <<>>
    /\ scaled_contours = <<>>
    /\ min_points = 0
    /\ total_contours = 0
    /\ drawn = 0
    /\ i = 0
    /\ j = 0

(***************************************************************************)
(* The pure functions                                                      *)
(***************************************************************************)
RECURSIVE Shoelace(_, _)
\* The sum over the points k..n of x_prev * y - x * y_prev, the point before
\* the first being the last
Shoelace(pts, k) ==
    IF k > Len(pts) THEN 0
    ELSE LET prev == IF k = 1 THEN pts[Len(pts)] ELSE pts[k - 1]
         IN  prev[1] * pts[k][2] - pts[k][1] * prev[2] + Shoelace(pts, k + 1)

\* cv2.contourArea(contour): half the absolute value of the sum, a double
contourArea(contour) ==
    IF Len(contour.pts) = 0 THEN FZero
    ELSE FromHalves(Abs(Shoelace(contour.pts, 1)))

\* Mutant of InsertByArea: c goes in front of the elements of equal area, as
\* in a sort that does not keep equal elements in their order
InsertByAreaUnstable(list, c) ==
    LET notLarger == {k \in 1..Len(list) :
                         FLe(contourArea(list[k]), contourArea(c))}
        at == IF notLarger = {} THEN Len(list) + 1
              ELSE CHOOSE k \in notLarger : \A l \in notLarger : k <= l
    IN  SubSeq(list, 1, at - 1) \o <<c>> \o SubSeq(list, at, Len(list))

\* c put into a list that is in descending order of area, behind every
\* element whose area is not smaller
InsertByArea(list, c) ==
    LET smaller == {k \in 1..Len(list) :
                       ~FLe(contourArea(c), contourArea(list[k]))}
        at == IF smaller = {} THEN Len(list) + 1
              ELSE CHOOSE k \in smaller : \A l \in smaller : k <= l
    IN  SubSeq(list, 1, at - 1) \o <<c>> \o SubSeq(list, at, Len(list))

RECURSIVE SortedFrom(_, _, _)
SortedFrom(list, k, acc) ==
    IF k > Len(list) THEN acc
    ELSE SortedFrom(list, k + 1, InsertByArea(acc, list[k]))

\* sorted(contours, key=cv2.contourArea, reverse=True): Python's sort is
\* stable, also with reverse=True
SortedByArea(list) == SortedFrom(list, 1, <<>>)

\* Mutant of ScalePoint: the y axis is not flipped
ScalePointUnflipped(point, h, w, scale) ==
    <<FMul(FSub(FromInt(point[1]), FDiv(w, 2)), scale),
      FMul(FSub(FromInt(point[2]), FDiv(h, 2)), scale)>>

\* One point of scale_coordinates: (x - w/2) * scale, (h/2 - y) * scale
ScalePoint(point, h, w, scale) ==
    <<FMul(FSub(FromInt(point[1]), FDiv(w, 2)), scale),
      FMul(FSub(FDiv(h, 2), FromInt(point[2])), scale)>>

\* Mutant of scale_coordinates: the scale is taken from the smaller dimension
scale_coordinates_by_min(cs, shape, size) ==
    LET h == shape[1]
        w == shape[2]
        scale == FDiv(size, IF h <= w THEN h ELSE w)
    IN  [k \in 1..Len(cs) |->
            [n \in 1..Len(cs[k].pts) |->
                <<FMul(FSub(FromInt(cs[k].pts[n][1]), FDiv(w, 2)), scale),
                  FMul(FSub(FDiv(h, 2), FromInt(cs[k].pts[n][2])), scale)>>]]

\* scale_coordinates(contours, img_shape, canvas_size), for max(h, w) # 0
scale_coordinates(cs, shape, size) ==
    LET h == shape[1]
        w == shape[2]
        scale == FDiv(size, Max(h, w))
    IN  [k \in 1..Len(cs) |->
            [n \in 1..Len(cs[k].pts) |-> ScalePoint(cs[k].pts[n], h, w, scale)]]

\* Mutant of TooSmall: a contour of exactly min_points points is skipped too
TooSmallOrEqual(contour, least) == Len(contour) <= least

\* The test of draw_toolpath that skips a contour
TooSmall(contour, least) == Len(contour) < least

\* Mutant of HasStart: the start is read at contour[1]
HasSecond(contour) == Len(contour) > 1

\* contour[0] exists
HasStart(contour) == Len(contour) > 0

(***************************************************************************)
(* The methods                                                             *)
(***************************************************************************)
\* Mutant of Raise: the failure is noted and the pipeline goes on
RaiseSwallowed(type, msg) ==
    /\ exc' = [type |-> type, msg |-> msg]
    /\ pc' = IF pc = "edge_detection" THEN "extract_contours" ELSE "done"
    /\ outcome' = outcome

\* An exception leaves the method: generate_from_image catches it, a direct
\* caller of a stage receives it.
Raise(type, msg) ==
    /\ exc' = [type |-> type, msg |-> msg]
    /\ IF entry = "generate_from_image"
         THEN pc' = "except" /\ outcome' = outcome
         ELSE pc' = "done" /\ outcome' = "raised"

\* A tool operation as the log keeps it: where the tool was, where it is, the
\* pen during the operation, and the contour the loop is at (-1 outside it)
Entry(op, to, at) ==
    [op |-> op, from |-> tool.pos, to |-> to, down |-> tool.down, i |-> at]

\* cnc.generate_from_image(img_path, canvas_size)
CallGenerateFromImage ==
    /\ pc = "idle"
    /\ \E size \in CanvasSizes : canvas_size' = size
    /\ entry' = "generate_from_image"
    /\ ran' = <<"generate_from_image">>
    /\ pc' = "edge_detection"
    /\ UNCHANGED <<outcome, exc, status, printed, tool, tool_log, img_shape,
                   discovered, contours, scaled_contours, locals>>

\* cnc.scale_coordinates(contours, img_shape, canvas_size), called directly
\* with one contour of one point
CallScaleCoordinates ==
    /\ pc = "idle"
    /\ \E shape \in ProbeShapes, size \in CanvasSizes :
         \E point \in ProbePoints(shape) :
            /\ img_shape' = shape
            /\ canvas_size' = size
            /\ contours' = AsContours(<<<<point>>>>)
    /\ entry' = "scale_coordinates"
    /\ ran' = <<>>
    /\ pc' = "scale_coordinates"
    /\ UNCHANGED <<outcome, exc, status, printed, tool, tool_log, discovered,
                   scaled_contours, locals>>

\* cnc.draw_toolpath(contours, min_points), called directly
CallDrawToolpath ==
    /\ pc = "idle"
    /\ \E cs \in ContourLists, least \in MinPointsChoices :
         /\ scaled_contours' =
               [k \in 1..Len(cs) |->
                   [n \in 1..Len(cs[k].pts) |->
                       <<FromInt(cs[k].pts[n][1]), FromInt(cs[k].pts[n][2])>>]]
         /\ min_points' = least
    /\ entry' = "draw_toolpath"
    /\ ran' = <<>>
    /\ pc' = "draw_toolpath"
    /\ UNCHANGED <<outcome, exc, status, printed, tool, tool_log, img_shape,
                   canvas_size, discovered, contours, total_contours, drawn, i, j>>

\* edge_detection, cv2.imread returning None
EdgeDetectionFails ==
    /\ pc = "edge_detection"
    /\ ran' = Append(ran, "edge_detection")
    /\ status' = Msg("Loading and processing image...", "", 0, 0)
    /\ Raise("ValueError", "Could not load image")
    /\ UNCHANGED <<entry, printed, tool, tool_log, pipeline, locals>>

\* edge_detection of an image that loads
EdgeDetection ==
    /\ pc = "edge_detection"
    /\ ran' = Append(ran, "edge_detection")
    /\ status' = Msg("Loading and processing image...", "", 0, 0)
    /\ \E shape \in ImageShapes : img_shape' = shape
    /\ pc' = "extract_contours"
    /\ UNCHANGED <<entry, outcome, exc, printed, tool, tool_log, canvas_size,
                   discovered, contours, scaled_contours, locals>>

ExtractContours ==
    /\ pc = "extract_contours"
    /\ ran' = Append(ran, "extract_contours")
    /\ status' = Msg("Extracting design contours...", "", 0, 0)
    /\ \E found \in ContourLists :
         /\ discovered' = found
         /\ contours' = SortedByArea(found)
    /\ pc' = "scale_coordinates"
    /\ UNCHANGED <<entry, outcome, exc, printed, tool, tool_log, img_shape,
                   canvas_size, scaled_contours, locals>>

ScaleCoordinates ==
    /\ pc = "scale_coordinates"
    /\ ran' = Append(ran, "scale_coordinates")
    /\ IF Max(img_shape[1], img_shape[2]) = 0
         THEN /\ Raise("ZeroDivisionError", "division by zero")
              /\ UNCHANGED scaled_contours
         ELSE /\ scaled_contours' = scale_coordinates(contours, img_shape, canvas_size)
              /\ exc' = exc
              /\ IF entry = "generate_from_image"
                   THEN pc' = "draw_toolpath" /\ outcome' = outcome
                   ELSE pc' = "done" /\ outcome' = "returned"
    /\ UNCHANGED <<entry, status, printed, tool, tool_log, img_shape,
                   canvas_size, discovered, contours, locals>>

\* The contour the loop of draw_toolpath is at
contour == scaled_contours[i + 1]

\* draw_toolpath up to its loop; generate_from_image passes no min_points
DrawToolpath ==
    /\ pc = "draw_toolpath"
    /\ ran' = Append(ran, "draw_toolpath")
    /\ status' = Msg("CNC Machine Running - Drawing Design...", "", 0, 0)
    /\ min_points' = IF entry = "draw_toolpath" THEN min_points ELSE DefaultMinPoints
    /\ total_contours' = Len(scaled_contours)
    /\ drawn' = 0
    /\ i' = 0
    /\ pc' = "loop"
    /\ UNCHANGED <<entry, outcome, exc, printed, tool, tool_log, pipeline, j>>

\* Mutant of SkipContour: a skipped contour is counted as drawn
SkipContourCounted ==
    /\ pc = "loop"
    /\ i < Len(scaled_contours)
    /\ TooSmall(scaled_contours[i + 1], min_points)
    /\ i' = i + 1
    /\ drawn' = drawn + 1
    /\ UNCHANGED <<pc, entry, outcome, exc, ran, status, printed, tool, tool_log,
                   pipeline, min_points, total_contours, j>>

\* for i, contour in enumerate(contours): a contour too small is skipped
SkipContour ==
    /\ pc = "loop"
    /\ i < Len(scaled_contours)
    /\ TooSmall(contour, min_points)
    /\ i' = i + 1
    /\ UNCHANGED <<pc, entry, outcome, exc, ran, status, printed, tool, tool_log,
                   pipeline, min_points, total_contours, drawn, j>>

\* Mutant of LiftTool: the pen is not raised before the move to a contour
LiftToolForgotten ==
    /\ pc = "loop"
    /\ i < Len(scaled_contours)
    /\ ~TooSmall(scaled_contours[i + 1], min_points)
    /\ pc' = "goto_start"
    /\ UNCHANGED <<entry, outcome, exc, ran, status, printed, tool, tool_log,
                   pipeline, locals>>

\* self.tool.penup() of a contour that is drawn
LiftTool ==
    /\ pc = "loop"
    /\ i < Len(scaled_contours)
    /\ ~TooSmall(contour, min_points)
    /\ tool' = [tool EXCEPT !.down = FALSE]
    /\ tool_log' = Append(tool_log, Entry("penup", tool.pos, i))
    /\ pc' = "goto_start"
    /\ UNCHANGED <<entry, outcome, exc, ran, status, printed, pipeline, locals>>

\* self.tool.goto(contour[0][0], contour[0][1])
GotoStart ==
    /\ pc = "goto_start"
    /\ IF HasStart(contour)
         THEN /\ tool' = [tool EXCEPT !.pos = contour[1]]
              /\ tool_log' = Append(tool_log, Entry("goto", contour[1], i))
              /\ pc' = "pendown"
              /\ UNCHANGED <<outcome, exc>>
         ELSE /\ Raise("IndexError", "list index out of range")
              /\ UNCHANGED <<tool, tool_log>>
    /\ UNCHANGED <<entry, ran, status, printed, pipeline, locals>>

\* self.tool.pendown(); self.tool.color("blue")
LowerTool ==
    /\ pc = "pendown"
    /\ tool' = [tool EXCEPT !.down = TRUE, !.color = "blue"]
    /\ tool_log' = Append(tool_log, Entry("pendown", tool.pos, i))
    /\ j' = 1
    /\ pc' = "points"
    /\ UNCHANGED <<entry, outcome, exc, ran, status, printed, pipeline,
                   min_points, total_contours, drawn, i>>

\* for x, y in contour[1:]: self.tool.goto(x, y)
GotoPoint ==
    /\ pc = "points"
    /\ j < Len(contour)
    /\ tool' = [tool EXCEPT !.pos = contour[j + 1]]
    /\ tool_log' = Append(tool_log, Entry("goto", contour[j + 1], i))
    /\ j' = j + 1
    /\ UNCHANGED <<pc, entry, outcome, exc, ran, status, printed, pipeline,
                   min_points, total_contours, drawn, i>>

\* the loop over the points ends: self.tool.goto(contour[0][0], contour[0][1])
CloseContour ==
    /\ pc = "points"
    /\ j >= Len(contour)
    /\ tool' = [tool EXCEPT !.pos = contour[1]]
    /\ tool_log' = Append(tool_log, Entry("goto", contour[1], i))
    /\ pc' = "count"
    /\ UNCHANGED <<entry, outcome, exc, ran, status, printed, pipeline, locals>>

\* drawn += 1, and the progress message after every fifth contour drawn
CountDrawn ==
    /\ pc = "count"
    /\ drawn' = drawn + 1
    /\ status' = IF (drawn + 1) % 5 = 0
                   THEN Msg("CNC Machine Running - Progress: /paths", "",
                            i + 1, total_contours)
                   ELSE status
    /\ i' = i + 1
    /\ pc' = "loop"
    /\ UNCHANGED <<entry, outcome, exc, ran, printed, tool, tool_log, pipeline,
                   min_points, total_contours, j>>

\* Mutant of ReturnLift: the pen is not raised before the return to home
ReturnLiftForgotten ==
    /\ pc = "loop"
    /\ i >= Len(scaled_contours)
    /\ pc' = "goto_home"
    /\ UNCHANGED <<entry, outcome, exc, ran, status, printed, tool, tool_log,
                   pipeline, locals>>

\* the loop over the contours ends: self.tool.penup()
ReturnLift ==
    /\ pc = "loop"
    /\ i >= Len(scaled_contours)
    /\ tool' = [tool EXCEPT !.down = FALSE]
    /\ tool_log' = Append(tool_log, Entry("penup", tool.pos, -1))
    /\ pc' = "goto_home"
    /\ UNCHANGED <<entry, outcome, exc, ran, status, printed, pipeline, locals>>

\* self.tool.goto(0, 0); self.tool.color("red")
ReturnHome ==
    /\ pc = "goto_home"
    /\ tool' = [tool EXCEPT !.pos = Home, !.color = "red"]
    /\ tool_log' = Append(tool_log, Entry("goto", Home, -1))
    /\ pc' = "complete"
    /\ UNCHANGED <<entry, outcome, exc, ran, status, printed, pipeline, locals>>

\* the last message of draw_toolpath, and its return
DrawComplete ==
    /\ pc = "complete"
    /\ status' = Msg("Design Complete! Drew toolpaths", "", drawn, 0)
    /\ IF entry = "generate_from_image"
         THEN pc' = "generate_complete" /\ outcome' = outcome
         ELSE pc' = "done" /\ outcome' = "returned"
    /\ UNCHANGED <<entry, exc, ran, printed, tool, tool_log, pipeline, locals>>

\* the last message of generate_from_image, and its return
GenerateComplete ==
    /\ pc = "generate_complete"
    /\ status' = Msg("CNC Design Complete - Click to close", "", 0, 0)
    /\ pc' = "done"
    /\ outcome' = "returned"
    /\ UNCHANGED <<entry, exc, ran, printed, tool, tool_log, pipeline, locals>>

\* Mutant of HandleException: the exception is dropped without a message
HandleExceptionSilent ==
    /\ pc = "except"
    /\ pc' = "done"
    /\ outcome' = "returned"
    /\ UNCHANGED <<entry, exc, ran, status, printed, tool, tool_log, pipeline, locals>>

\* except Exception as e: the message is shown and printed, and
\* generate_from_image returns
HandleException ==
    /\ pc = "except"
    /\ status' = Msg("Error: ", exc.msg, 0, 0)
    /\ printed' = Append(printed, <<"Error processing image: ", exc.msg>>)
    /\ pc' = "done"
    /\ outcome' = "returned"
    /\ UNCHANGED <<entry, exc, ran, tool, tool_log, pipeline, locals>>

Next ==
    \/ CallGenerateFromImage
    \/ CallScaleCoordinates
    \/ CallDrawToolpath
    \/ EdgeDetectionFails
    \/ EdgeDetection
    \/ ExtractContours
    \/ ScaleCoordinates
    \/ DrawToolpath
    \/ SkipContour
    \/ LiftTool
    \/ GotoStart
    \/ LowerTool
    \/ GotoPoint
    \/ CloseContour
    \/ CountDrawn
    \/ ReturnLift
    \/ ReturnHome
    \/ DrawComplete
    \/ GenerateComplete
    \/ HandleException

Spec == Init /\ [][Next]_vars

(***************************************************************************)
(* Properties                                                              *)
(***************************************************************************)
Ran(method) == \E k \in 1..Len(ran) : ran[k] = method

\* draw_toolpath has returned
DrawReturned ==
    /\ Ran("draw_toolpath")
    /\ pc \in {"generate_complete", "done"}
    /\ exc = NoException

\* scale_coordinates has just returned its result
ScaleReturned ==
    /\ Ran("scale_coordinates")
    /\ exc = NoException
    /\ pc = IF entry = "scale_coordinates" THEN "done" ELSE "draw_toolpath"

\* The tool operations logged while the loop was at contour k (from 1)
OpsAt(k) == LET At(e) == e.i = k - 1 IN SelectSeq(tool_log, At)

Lowerings(log) == LET Down(e) == e.op = "pendown" IN SelectSeq(log, Down)

Gotos(log) == LET Move(e) == e.op = "goto" IN SelectSeq(log, Move)

Targets(log) == [n \in 1..Len(log) |-> log[n].to]

\* The contours of draw_toolpath's argument that are not too small
Retained == {k \in 1..Len(scaled_contours) : Len(scaled_contours[k]) >= min_points}

\* C1: a contour of fewer than min_points points is never visited by the tool;
\* a contour of at least min_points points is drawn exactly once (the pen is
\* lowered once for it, and the tool goes to its points in order and back to
\* the first) by the time draw_toolpath returns; with min_points above the
\* longest contour nothing is drawn.
C1_FilterCorrect ==
    Ran("draw_toolpath") =>
        \A k \in 1..Len(scaled_contours) :
            /\ Len(scaled_contours[k]) < min_points => OpsAt(k) = <<>>
            /\ Len(Lowerings(OpsAt(k))) <= 1
            /\ (DrawReturned /\ Len(scaled_contours[k]) >= min_points) =>
                  /\ Len(Lowerings(OpsAt(k))) = 1
                  /\ Targets(Gotos(OpsAt(k))) =
                        scaled_contours[k] \o <<scaled_contours[k][1]>>

\* C1 witness: generate_from_image has returned having drawn one contour and
\* skipped another
C1_Witness ==
    /\ entry = "generate_from_image"
    /\ pc = "done"
    /\ drawn >= 1
    /\ drawn < total_contours
    /\ \E k \in 1..Len(scaled_contours) : Len(scaled_contours[k]) = min_points

Area(id) == contourArea(discovered[id])

\* C2: through extract_contours, scale_coordinates and draw_toolpath the
\* contours are drawn in descending order of the area of the pixel-space
\* contour cv2 found, contours of equal area in the order cv2 found them; the
\* tool goes to the points of the contour the loop is at, and the contour at
\* a place of draw_toolpath's list is the scaled image of the contour cv2
\* found that extract_contours put at that place, each contour found having
\* one place.
C2_DrawnByDescendingArea ==
    (entry = "generate_from_image" /\ Ran("draw_toolpath")) =>
        LET starts == Lowerings(tool_log)
            id(a) == contours[starts[a].i + 1].id
        IN  /\ \A a, b \in 1..Len(starts) :
                 a < b => /\ FLe(Area(id(b)), Area(id(a)))
                          /\ Area(id(b)) = Area(id(a)) => id(a) < id(b)
            /\ \A n \in 1..Len(tool_log) :
                 (tool_log[n].op = "goto" /\ tool_log[n].i >= 0) =>
                    \E m \in 1..Len(scaled_contours[tool_log[n].i + 1]) :
                       tool_log[n].to = scaled_contours[tool_log[n].i + 1][m]
            /\ Len(contours) = Len(discovered)
            /\ Len(scaled_contours) = Len(discovered)
            /\ \A k, l \in 1..Len(contours) :
                 contours[k].id = contours[l].id => k = l
            /\ pc \in {"goto_home", "done"} =>
                 \A k \in 1..Len(contours) :
                    scaled_contours[k] =
                       scale_coordinates(<<discovered[contours[k].id]>>,
                                         img_shape, canvas_size)[1]

\* C2 witness: two contours of different area, found smaller first, and two
\* of equal area have been drawn
C2_Witness ==
    /\ entry = "generate_from_image"
    /\ pc = "done"
    /\ drawn = 3
    /\ Len(discovered) = 3
    /\ Area(1) # Area(2)
    /\ FLe(Area(1), Area(2))
    /\ Area(2) = Area(3)

Untouched == [pos |-> Home, down |-> TRUE, color |-> "red"]

\* C3: when the image cannot be loaded no stage after edge_detection runs,
\* the tool neither moves nor has its pen lowered, and no result of a stage
\* exists.
C3_LoadFailureAborts ==
    (entry = "generate_from_image" /\ exc.msg = "Could not load image") =>
        /\ ran = <<"generate_from_image", "edge_detection">>
        /\ tool_log = <<>>
        /\ tool = Untouched
        /\ discovered = <<>>
        /\ contours = <<>>
        /\ scaled_contours = <<>>
        /\ pc \in {"except", "done"}

C3_Witness ==
    /\ pc = "done"
    /\ exc.msg = "Could not load image"
    /\ ran = <<"generate_from_image", "edge_detection">>

\* C4, as claimed: a call of generate_from_image on an image that cannot be
\* loaded ends in an error outcome visible to its caller, not a normal return.
C4_ErrorReachesCaller ==
    (entry = "generate_from_image" /\ pc = "done" /\ exc.msg = "Could not load image")
        => outcome = "raised"

\* C4, amended: edge_detection raises ValueError("Could not load image") to
\* generate_from_image, which catches it, shows and prints the message and
\* returns normally; edge_detection is not run again and no other stage runs.
C4_ErrorShownAndReturned ==
    (entry = "generate_from_image" /\ exc # NoException) =>
        /\ exc = [type |-> "ValueError", msg |-> "Could not load image"]
        /\ ran = <<"generate_from_image", "edge_detection">>
        /\ pc \in {"except", "done"}
        /\ pc = "except" => outcome = "running"
        /\ pc = "done" =>
              /\ outcome = "returned"
              /\ status = Msg("Error: ", "Could not load image", 0, 0)
              /\ printed = <<<<"Error processing image: ", "Could not load image">>>>

C4_Witness ==
    /\ entry = "generate_from_image"
    /\ pc = "done"
    /\ exc.type = "ValueError"
    /\ outcome = "returned"
    /\ status.text = "Error: "

\* C5: once the image has loaded nothing raises: the only exception there is
\* is the load failure of edge_detection, a stage called directly returns,
\* draw_toolpath can go on from every statement it reaches until the call has
\* returned, and an empty contour list ends with nothing drawn.
C5_StagesNeverFail ==
    /\ exc # NoException => (exc.type = "ValueError" /\ ~Ran("extract_contours"))
    /\ outcome # "raised"
    /\ pc \notin {"done", "scale_coordinates"} => ENABLED Next
    /\ (pc = "done" /\ exc = NoException) => outcome = "returned"
    /\ (DrawReturned /\ scaled_contours = <<>>) =>
          /\ drawn = 0
          /\ Lowerings(tool_log) = <<>>

\* C5 witness: an image without edges has gone through every stage
C5_Witness ==
    /\ entry = "generate_from_image"
    /\ pc = "done"
    /\ outcome = "returned"
    /\ Ran("draw_toolpath")
    /\ discovered = <<>>
    /\ drawn = 0

\* C6: scale_coordinates maps point by point: as many contours, in the same
\* order, each with as many points in the same order, the pixel (x, y)
\* becoming ((x - w/2) * scale, (h/2 - y) * scale) with scale = canvas_size /
\* max(h, w); the image centre goes to (0, 0) and the corner (0, 0) to
\* (-w/2 * scale, h/2 * scale).
C6_PointwiseMap ==
    ScaleReturned =>
        LET h == img_shape[1]
            w == img_shape[2]
            scale == FDiv(canvas_size, Max(h, w))
        IN  /\ Len(scaled_contours) = Len(contours)
            /\ \A k \in 1..Len(contours) :
                 /\ Len(scaled_contours[k]) = Len(contours[k].pts)
                 /\ \A n \in 1..Len(contours[k].pts) :
                      LET x == contours[k].pts[n][1]
                          y == contours[k].pts[n][2]
                          t == scaled_contours[k][n]
                      IN  /\ t = <<FMul(FromHalves(2 * x - w), scale),
                                   FMul(FromHalves(h - 2 * y), scale)>>
                          /\ (2 * x = w /\ 2 * y = h) => t = Home
                          /\ (x = 0 /\ y = 0) =>
                                t = <<FNeg(FMul(FDiv(w, 2), scale)),
                                      FMul(FDiv(h, 2), scale)>>

\* C6 witness: a contour from the corner (0, 0) to the centre of a 4x4 image
\* has been scaled, behind a contour of more points
C6_Witness ==
    /\ ScaleReturned
    /\ entry = "generate_from_image"
    /\ img_shape = <<4, 4>>
    /\ Len(contours) = 2
    /\ contours[1].pts = Outline
    /\ contours[2].pts = Segment

\* The points scale_coordinates was given, as <<contour, point>>
PointsGiven ==
    UNION {{<<k, n>> : n \in 1..Len(contours[k].pts)} : k \in 1..Len(contours)}

\* On both axes the same scale: two offsets from the image centre of the same
\* length, one along x and one along y, are scaled to the same length
UniformScale ==
    \A p \in PointsGiven :
        LET x == contours[p[1]].pts[p[2]][1]
            y == contours[p[1]].pts[p[2]][2]
            t == scaled_contours[p[1]][p[2]]
        IN  Abs(2 * x - img_shape[2]) = Abs(img_shape[1] - 2 * y)
               => FAbs(t[1]) = FAbs(t[2])

\* C7, as claimed: every pixel point with 0 <= x <= w and 0 <= y <= h is
\* scaled to a point with |tx| <= canvas_size/2 and |ty| <= canvas_size/2, the
\* same scale being applied on both axes.
C7_FitsCanvas ==
    ScaleReturned =>
        /\ \A p \in PointsGiven :
              LET t == scaled_contours[p[1]][p[2]]
              IN  /\ FLe(FAbs(t[1]), FDiv(canvas_size, 2))
                  /\ FLe(FAbs(t[2]), FDiv(canvas_size, 2))
        /\ UniformScale

\* C7, amended: |tx| and |ty| are at most the double next above
\* canvas_size/2 (the quotient canvas_size / max(h, w) is rounded, so the
\* product may exceed canvas_size/2 by one unit in the last place), the same
\* scale being applied on both axes.
C7_FitsCanvasToOneUlp ==
    ScaleReturned =>
        /\ \A p \in PointsGiven :
              LET t == scaled_contours[p[1]][p[2]]
              IN  /\ FLe(FAbs(t[1]), FSucc(FDiv(canvas_size, 2)))
                  /\ FLe(FAbs(t[2]), FSucc(FDiv(canvas_size, 2)))
        /\ UniformScale

\* C7 witness: the left edge x = 0 of an image 73 pixels wide, scaled to a
\* canvas of 600, lies one unit in the last place beyond -300
C7_Witness ==
    /\ ScaleReturned
    /\ img_shape = <<2, 73>>
    /\ canvas_size = DefaultCanvasSize
    /\ contours[1].pts[1][1] = 0
    /\ scaled_contours[1][1][1] = FNeg(FSucc(FDiv(canvas_size, 2)))

\* C8: draw_toolpath ends with the tool at home (0, 0) and the pen up, for
\* any contour list, and the tool goes nowhere else afterwards: the last
\* operation of the tool stays the goto to home.
C8_EndsAtHome ==
    (Ran("draw_toolpath") /\ pc \in {"complete", "generate_complete", "done"}) =>
        /\ exc = NoException
        /\ tool.pos = Home
        /\ ~tool.down
        /\ tool_log # <<>>
        /\ tool_log[Len(tool_log)].op = "goto"
        /\ tool_log[Len(tool_log)].to = Home
        /\ ~tool_log[Len(tool_log)].down

\* C8 witness: draw_toolpath has returned after drawing a contour that is not
\* at home, and skipping the last one
C8_Witness ==
    /\ DrawReturned
    /\ pc = "done"
    /\ drawn >= 1
    /\ Len(scaled_contours) \notin Retained
    /\ \E n \in 1..Len(tool_log) : tool_log[n].to # Home

\* The contours the loop of draw_toolpath has looked at so far
Examined ==
    IF pc \in {"goto_start", "pendown", "points", "count"} THEN i + 1 ELSE i

\* C9: the total is the number of contours passed in, the count shown when
\* draw_toolpath completes is the number of contours of at least min_points
\* points, and throughout drawn <= contours examined so far <= total.
C9_CountsCorrect ==
    (Ran("draw_toolpath") /\ exc = NoException) =>
        /\ total_contours = Len(scaled_contours)
        /\ drawn <= Examined
        /\ Examined <= total_contours
        /\ drawn = Len(Lowerings(tool_log)) - (IF pc \in {"points", "count"} THEN 1 ELSE 0)
        /\ pc \in {"generate_complete", "done"} => drawn = Cardinality(Retained)
        /\ (pc = "generate_complete" \/ (pc = "done" /\ entry = "draw_toolpath")) =>
              status = Msg("Design Complete! Drew toolpaths", "", Cardinality(Retained), 0)

\* C9 witness: draw_toolpath reports two of three contours drawn
C9_Witness ==
    /\ entry = "draw_toolpath"
    /\ pc = "done"
    /\ total_contours = 3
    /\ status = Msg("Design Complete! Drew toolpaths", "", 2, 0)

RECURSIVE Planned(_)
\* The tool operations, as <<operation, target, contour>>, of the contours
\* from k on: for a contour kept, pen up, to its first point, pen down, to its
\* other points in order, back to the first; and after the last contour pen
\* up, home (a pen operation has no target: home stands in its place)
Planned(k) ==
    IF k > Len(scaled_contours) THEN <<<<"penup", Home, 0>>, <<"goto", Home, 0>>>>
    ELSE LET c == scaled_contours[k]
         IN  IF Len(c) < min_points THEN Planned(k + 1)
             ELSE <<<<"penup", Home, k>>, <<"goto", c[1], k>>, <<"pendown", Home, k>>>>
                  \o [n \in 1..Len(c) - 1 |-> <<"goto", c[n + 1], k>>]
                  \o <<<<"goto", c[1], k>>>>
                  \o Planned(k + 1)

Performed ==
    [n \in 1..Len(tool_log) |->
        <<tool_log[n].op,
          IF tool_log[n].op = "goto" THEN tool_log[n].to ELSE Home,
          tool_log[n].i + 1>>]

Points(k) == {scaled_contours[k][n] : n \in 1..Len(scaled_contours[k])}

\* C10: what the tool does is, contour by contour, pen up, to the first
\* point, pen down, to the other points in order, back to the first point;
\* a move with the pen down joins two points of one contour, and the moves to
\* the first point of a contour and to home are made with the pen up.
C10_PenDiscipline ==
    Ran("draw_toolpath") =>
        /\ Len(Performed) <= Len(Planned(1))
        /\ Performed = SubSeq(Planned(1), 1, Len(Performed))
        /\ DrawReturned => Performed = Planned(1)
        /\ \A n \in 1..Len(tool_log) :
              LET e == tool_log[n]
              IN  /\ (e.op = "goto" /\ e.down) =>
                        /\ e.i >= 0
                        /\ e.from \in Points(e.i + 1)
                        /\ e.to \in Points(e.i + 1)
                  /\ (e.op = "goto" /\ e.i = -1) => ~e.down
                  /\ (e.op = "goto" /\ n > 1 /\ tool_log[n - 1].op = "penup") => ~e.down
                  /\ e.op = "penup" => e.to = e.from

\* C10 witness: two contours have been drawn one after the other
C10_Witness ==
    /\ DrawReturned
    /\ pc = "done"
    /\ drawn = 2
    /\ \E n \in 2..Len(tool_log) :
          /\ tool_log[n].op = "goto"
          /\ tool_log[n].i = 1
          /\ tool_log[n - 1].op = "penup"
          /\ tool_log[n].from # tool_log[n].to

=============================================================================
